---- MODULE Spec2Model ----
(***************************************************************************)
(* Model of app.py: the IAM token provider (get_iam_token), the response   *)
(* normalizer (extract_text), the payload shapes (candidate_payloads), the *)
(* agent gateway (call_agent) and the chat turn (handle_message).          *)
(***************************************************************************)
EXTENDS Integers, Sequences, FiniteSets, TLC

(***************************************************************************)
(* JSON values.  Every value is a record of the same six fields so that    *)
(* any two values can be compared: t is the Python type, s the string, n   *)
(* the number (or 0/1 for a bool), l the list items and d the dict's       *)
(* (key, value) pairs in insertion order.  Python's None is JNull.         *)
(***************************************************************************)
JNull == [t |-> "null", s |-> "", n |-> 0, l |-> <<>>, d |-> <<>>]

JNum(i) == [t |-> "num", s |-> "", n |-> i, l |-> <<>>, d |-> <<>>]

JBool(b) == [t |-> "bool", s |-> "", n |-> IF b THEN 1 ELSE 0, l |-> <<>>, d |-> <<>>]

\* A Python float: n is the integer part, s the fraction digits of its repr.
JFloat(ip, frac) == [t |-> "float", s |-> frac, n |-> ip, l |-> <<>>, d |-> <<>>]

JStr(str) == [t |-> "str", s |-> str, n |-> 0, l |-> <<>>, d |-> <<>>]

JList(items) == [t |-> "list", s |-> "", n |-> 0, l |-> items, d |-> <<>>]

JDict(pairs) == [t |-> "dict", s |-> "", n |-> 0, l |-> <<>>, d |-> pairs]

\* One (key, value) pair of a dict literal.
KV(k, v) == <<[k |-> k, v |-> v]>>

\* isinstance(x, dict) / isinstance(x, str) / isinstance(x, list)
IsDict(x) == x.t = "dict"

IsStr(x) == x.t = "str"

IsList(x) == x.t = "list"

\* k in x, for a dict x
HasKey(x, k) == \E i \in 1..Len(x.d) : x.d[i].k = k

\* x.get(k, default), for a dict x
GetOr(x, k, default) ==
    IF HasKey(x, k)
    THEN x.d[CHOOSE i \in 1..Len(x.d) : x.d[i].k = k].v
    ELSE default

\* x.get(k), for a dict x: None when the key is absent
Get(x, k) == GetOr(x, k, JNull)

\* Python truth value of x (bool(x))
Truthy(x) ==
    CASE x.t = "null" -> FALSE
      [] x.t = "bool" -> x.n = 1
      [] x.t = "num"  -> x.n # 0
      [] x.t = "float" -> x.n # 0 \/ x.s # "0"
      [] x.t = "str"  -> x.s # ""
      [] x.t = "list" -> x.l # <<>>
      [] x.t = "dict" -> x.d # <<>>

\* a or b
PyOr(a, b) == IF Truthy(a) THEN a ELSE b

Whitespace == {" ", "\n", "\t", "\r"}

\* s.strip() is empty: every character of s is whitespace
IsBlank(str) == \A i \in 1..Len(str) : SubSeq(str, i, i) \in Whitespace

\* sep.join(texts)
RECURSIVE Join(_, _)
Join(sep, texts) ==
    IF texts = <<>> THEN ""
    ELSE IF Len(texts) = 1 THEN texts[1]
    ELSE texts[1] \o sep \o Join(sep, Tail(texts))

(***************************************************************************)
(* json.dumps(j, ensure_ascii=False, indent=...)                           *)
(***************************************************************************)
\* The JSON escape of one character.
EscapeChar(c) ==
    CASE c = "\"" -> "\\\""
      [] c = "\\" -> "\\\\"
      [] c = "\n" -> "\\n"
      [] c = "\t" -> "\\t"
      [] c = "\r" -> "\\r"
      [] OTHER    -> c

\* The JSON escape of a string, character by character (by halves).
RECURSIVE Escape(_)
Escape(str) ==
    IF str = "" THEN ""
    ELSE IF Len(str) = 1 THEN EscapeChar(str)
    ELSE LET half == Len(str) \div 2
         IN  Escape(SubSeq(str, 1, half)) \o Escape(SubSeq(str, half + 1, Len(str)))

RECURSIVE Spaces(_)
Spaces(k) == IF k = 0 THEN "" ELSE " " \o Spaces(k - 1)

\* Width of one indentation level in extract_text's fallback dump.
Indent == 2

\* json.dumps(j, indent=Indent) at nesting level lvl.
RECURSIVE DumpIndented(_, _)
DumpIndented(j, lvl) ==
    LET nl(k) == "\n" \o Spaces(Indent * k)
        items == [i \in 1..Len(j.l) |-> DumpIndented(j.l[i], lvl + 1)]
        pairs == [i \in 1..Len(j.d) |->
                    "\"" \o Escape(j.d[i].k) \o "\": " \o DumpIndented(j.d[i].v, lvl + 1)]
    IN  CASE j.t = "null" -> "null"
          [] j.t = "bool" -> IF j.n = 1 THEN "true" ELSE "false"
          [] j.t = "num"  -> ToString(j.n)
          [] j.t = "float" -> ToString(j.n) \o "." \o j.s
          [] j.t = "str"  -> "\"" \o Escape(j.s) \o "\""
          [] j.t = "list" ->
                IF j.l = <<>> THEN "[]"
                ELSE "[" \o nl(lvl + 1) \o Join("," \o nl(lvl + 1), items) \o nl(lvl) \o "]"
          [] j.t = "dict" ->
                IF j.d = <<>> THEN "{}"
                ELSE "{" \o nl(lvl + 1) \o Join("," \o nl(lvl + 1), pairs) \o nl(lvl) \o "}"

\* json.dumps(j) without indent: ", " and ": " separators on one line.
RECURSIVE DumpCompact(_)
DumpCompact(j) ==
    LET items == [i \in 1..Len(j.l) |-> DumpCompact(j.l[i])]
        pairs == [i \in 1..Len(j.d) |->
                    "\"" \o Escape(j.d[i].k) \o "\": " \o DumpCompact(j.d[i].v)]
    IN  CASE j.t = "null" -> "null"
          [] j.t = "bool" -> IF j.n = 1 THEN "true" ELSE "false"
          [] j.t = "num"  -> ToString(j.n)
          [] j.t = "float" -> ToString(j.n) \o "." \o j.s
          [] j.t = "str"  -> "\"" \o Escape(j.s) \o "\""
          [] j.t = "list" -> "[" \o Join(", ", items) \o "]"
          [] j.t = "dict" -> "{" \o Join(", ", pairs) \o "}"

(***************************************************************************)
(* extract_text.  The result is either a returned string or a raised       *)
(* exception.                                                              *)
(***************************************************************************)
Returned(str) == [raised |-> FALSE, exc |-> "", text |-> str]

Raised(e) == [raised |-> TRUE, exc |-> e, text |-> ""]

\* No return statement reached yet: control falls through to the next block.
FallThrough == [raised |-> FALSE, exc |-> "fallthrough", text |-> ""]

\* The texts a list comprehension / loop collects from a list of blocks:
\* it.get("text") for each dict it whose "text" is a string.
BlockTexts(items) ==
    LET keep == SelectSeq(items, LAMBDA it : IsDict(it) /\ IsStr(Get(it, "text")))
    IN  [i \in 1..Len(keep) |-> Get(keep[i], "text").s]

\* The items "for c in x" iterates: list items, dict keys, string characters.
IterItems(x) ==
    CASE x.t = "list" -> x.l
      [] x.t = "dict" -> [i \in 1..Len(x.d) |-> JStr(x.d[i].k)]
      [] x.t = "str"  -> [i \in 1..Len(x.s) |-> JStr(SubSeq(x.s, i, i))]
      [] OTHER        -> <<>>

\* What one iteration "for c in (m.get('content') or [])" raises, "" if nothing.
MsgException(m) ==
    IF ~IsDict(m) THEN "AttributeError"
    ELSE LET c == PyOr(Get(m, "content"), JList(<<>>))
         IN  IF c.t \in {"num", "bool", "float"} THEN "TypeError" ELSE ""

\* The texts one message m appends to buf.
MsgTexts(m) == BlockTexts(IterItems(PyOr(Get(m, "content"), JList(<<>>))))

RECURSIVE ConcatAll(_)
ConcatAll(seqs) == IF seqs = <<>> THEN <<>> ELSE Head(seqs) \o ConcatAll(Tail(seqs))

\* Agent-style block, lines 271-294.
AgentStyle(j) ==
    LET out == Get(j, "output")
        gen == Get(out, "generic")
        msgs == Get(out, "messages")
        texts == BlockTexts(gen.l)
        bad == {i \in 1..Len(msgs.l) : MsgException(msgs.l[i]) # ""}
        first == CHOOSE i \in bad : \A k \in bad : i <= k
        buf == ConcatAll([i \in 1..Len(msgs.l) |-> MsgTexts(msgs.l[i])])
    IN  IF ~IsDict(out) THEN FallThrough
        ELSE IF IsStr(Get(out, "text")) /\ ~IsBlank(Get(out, "text").s)
             THEN Returned(Get(out, "text").s)
        ELSE IF IsList(gen) /\ texts # <<>> THEN Returned(Join("\n\n", texts))
        ELSE IF ~IsList(msgs) THEN FallThrough
        ELSE IF bad # {} THEN Raised(MsgException(msgs.l[first]))
        ELSE IF buf # <<>> THEN Returned(Join("\n\n", buf))
        ELSE FallThrough

\* FM chat-style block, lines 297-310.
ChatStyle(j) ==
    LET choices == Get(j, "choices")
        ch0 == choices.l[1]
        msg == GetOr(ch0, "message", JDict(<<>>))
        content == Get(msg, "content")
        texts == BlockTexts(content.l)
    IN  IF ~(IsList(choices) /\ choices.l # <<>>) THEN FallThrough
        ELSE IF ~IsDict(ch0) THEN Raised("AttributeError")
        ELSE IF ~IsDict(msg) THEN Raised("AttributeError")
        ELSE IF IsStr(content) /\ ~IsBlank(content.s) THEN Returned(content.s)
        ELSE IF IsList(content) /\ texts # <<>> THEN Returned(Join("\n\n", texts))
        ELSE FallThrough

\* FM text-style block, lines 313-319.
TextStyle(j) ==
    LET res == Get(j, "results")
        txt(it) == PyOr(PyOr(Get(it, "generated_text"), Get(it, "output")), Get(it, "text"))
        hit(it) == IsDict(it) /\ IsStr(txt(it)) /\ ~IsBlank(txt(it).s)
        hits == IF IsList(res) THEN {i \in 1..Len(res.l) : hit(res.l[i])} ELSE {}
        first == CHOOSE i \in hits : \A k \in hits : i <= k
    IN  IF hits = {} THEN FallThrough ELSE Returned(txt(res.l[first]).s)

extract_text(j) ==
    IF ~IsDict(j) THEN Returned(DumpIndented(j, 0))
    ELSE IF AgentStyle(j) # FallThrough THEN AgentStyle(j)
    ELSE IF ChatStyle(j) # FallThrough THEN ChatStyle(j)
    ELSE IF TextStyle(j) # FallThrough THEN TextStyle(j)
    ELSE Returned(DumpIndented(j, 0))

(***************************************************************************)
(* Profile helpers                                                         *)
(***************************************************************************)
Digits == <<"0", "1", "2", "3", "4", "5", "6", "7", "8", "9">>

IsDigit(c) == \E i \in 1..10 : Digits[i] = c

DigitVal(c) == (CHOOSE i \in 1..10 : Digits[i] = c) - 1

\* "".join(ch for ch in s if ch.isdigit() or ch == ".")
RECURSIVE KeepNumeric(_)
KeepNumeric(str) ==
    IF str = "" THEN ""
    ELSE LET c == SubSeq(str, 1, 1)
             rest == KeepNumeric(SubSeq(str, 2, Len(str)))
         IN  IF IsDigit(c) \/ c = "." THEN c \o rest ELSE rest

\* Position of the first "." of str, 0 if there is none.
DotAt(str) ==
    LET dots == {i \in 1..Len(str) : SubSeq(str, i, i) = "."}
    IN  IF dots = {} THEN 0 ELSE CHOOSE i \in dots : \A k \in dots : i <= k

\* int(str) for a string of digits ("" gives 0).
RECURSIVE DigitsToInt(_)
DigitsToInt(str) ==
    IF str = "" THEN 0
    ELSE 10 * DigitsToInt(SubSeq(str, 1, Len(str) - 1)) + DigitVal(SubSeq(str, Len(str), Len(str)))

\* The fraction digits of a float's repr: no trailing zeros, "0" when empty.
RECURSIVE TrimFraction(_)
TrimFraction(str) ==
    IF str = "" THEN "0"
    ELSE IF SubSeq(str, Len(str), Len(str)) = "0" THEN TrimFraction(SubSeq(str, 1, Len(str) - 1))
    ELSE str

\* float(str) for a string of digits and dots; JNull stands for ValueError.
ParseFloat(str) ==
    LET dot == DotAt(str)
        ip == IF dot = 0 THEN str ELSE SubSeq(str, 1, dot - 1)
        fp == IF dot = 0 THEN "" ELSE SubSeq(str, dot + 1, Len(str))
    IN  IF ip \o fp = "" \/ DotAt(fp) # 0 THEN JNull
        ELSE JFloat(DigitsToInt(ip), TrimFraction(fp))

\* num_from_str(s): any exception (a non-string s, a failed float()) gives None.
num_from_str(x) == IF ~IsStr(x) THEN JNull ELSE ParseFloat(KeepNumeric(x.s))

\* Mutant: the comprehension of line 237 keeps every key.
build_profile_unfiltered(side) ==
    JDict(KV("age", Get(side, "age"))
          \o KV("sex", Get(side, "sex"))
          \o KV("height_cm", num_from_str(GetOr(side, "height", JStr(""))))
          \o KV("weight_kg", num_from_str(GetOr(side, "weight", JStr(""))))
          \o KV("activity", Get(side, "activity"))
          \o KV("goal", Get(side, "goal")))

build_profile(side) ==
    LET prof == KV("age", Get(side, "age"))
                \o KV("sex", Get(side, "sex"))
                \o KV("height_cm", num_from_str(GetOr(side, "height", JStr(""))))
                \o KV("weight_kg", num_from_str(GetOr(side, "weight", JStr(""))))
                \o KV("activity", Get(side, "activity"))
                \o KV("goal", Get(side, "goal"))
    IN  JDict(SelectSeq(prof, LAMBDA p : p.v # JNull))

\* int(x) for a number x: the integer part.
PyInt(x) == x.n

quick_start_plan_prompt(profile) ==
    IF ~Truthy(profile)
    THEN "Make my plan for today. I am 22, 175 cm, 78 kg, male, "
         \o "moderate, goal lose weight, vegetarian, budget on."
    ELSE LET age == PyInt(GetOr(profile, "age", JNum(22)))
             h == PyInt(GetOr(profile, "height_cm", JNum(175)))
             w == PyInt(GetOr(profile, "weight_kg", JNum(78)))
             sex == GetOr(profile, "sex", JStr("male")).s
             activity == GetOr(profile, "activity", JStr("moderate")).s
             goal == GetOr(profile, "goal", JStr("lose")).s
             goal_phrase == CASE goal = "lose" -> "goal lose weight"
                              [] goal = "maintain" -> "goal maintain weight"
                              [] goal = "gain" -> "goal gain weight"
                              [] OTHER -> "goal lose weight"
         IN  "Make my plan for today. I am " \o ToString(age) \o ", " \o ToString(h)
             \o " cm, " \o ToString(w) \o " kg, " \o sex \o ", "
             \o activity \o ", " \o goal_phrase \o ", vegetarian, budget on."

\* The texts of the four quick-start buttons, lines 611-638.
QuickPrompts(profile) ==
    { quick_start_plan_prompt(profile),
      "Make lunch vegetarian under 8 dollars and keep totals within ten percent.",
      "End of day recap. I ate breakfast as planned, swapped lunch to tofu stir fry, skipped the snack.",
      "Show my mini grocery list from the plan." }

(***************************************************************************)
(* Payload candidates                                                      *)
(***************************************************************************)
candidate_payloads(user_text, variables) ==
    LET role == KV("role", JStr("user"))
        plain == JDict(role \o KV("content", JStr(user_text)))
        block(type) ==
            JDict(role \o KV("content",
                JList(<<JDict(KV("type", JStr(type)) \o KV("text", JStr(user_text)))>>)))
        vars == KV("variables", variables)
    IN  << JDict(KV("input", JDict(KV("messages", JList(<<plain>>)) \o vars))),
           JDict(KV("input", JDict(KV("messages", JList(<<block("input_text")>>)) \o vars))),
           JDict(KV("input", JDict(KV("messages", JList(<<block("text")>>)) \o vars))),
           JDict(KV("input", JList(<<plain>>)) \o vars),
           JDict(KV("input", JList(<<block("text")>>)) \o vars),
           JDict(KV("messages", JList(<<plain>>)) \o vars),
           JDict(KV("input", JDict(KV("text", JStr(user_text)) \o vars))) >>

\* Mutant: the list lacks its last shape.
NumCandidatesShort == 7 - 1

\* Number of payload shapes in candidate_payloads' list.
NumCandidates == 7

(***************************************************************************)
(* HTTP                                                                    *)
(***************************************************************************)
IAM_TOKEN_URL == "https://iam.cloud.ibm.com/identity/token"

\* WATSONX_AGENT_URL of the environment.
DEPLOYMENT_URL == "https://agent.example/ai_service?version=2021-05-01"

\* IBM_CLOUD_API_KEY of the environment.
API_KEY == "apikey"

\* A response whose body is the JSON document j.
JsonResponse(status, j) ==
    [status_code |-> status, text |-> DumpCompact(j), is_json |-> TRUE, json |-> j]

\* A response whose body is not JSON.
TextResponse(status, body) ==
    [status_code |-> status, text |-> body, is_json |-> FALSE, json |-> JNull]

\* Mutant: only 200 counts as a success.
OkOnly200(r) == r.status_code = 200

\* r.ok: raise_for_status() would not raise.
Ok(r) == ~(400 <= r.status_code /\ r.status_code < 600)

\* Length of the raw-text prefix kept in last_error.
BodyLimit == 1500

\* r.text[:1500]
TextPrefix(str) == IF Len(str) <= BodyLimit THEN str ELSE SubSeq(str, 1, BodyLimit)

NoException == [type |-> "", message |-> ""]

Exception(type, message) == [type |-> type, message |-> message]

\* The exception requests.post raises on a transport failure.
TransportError(kind, url) == Exception(kind, kind \o " for url: " \o url)

(***************************************************************************)
(* IAM token (cached)                                                      *)
(***************************************************************************)
\* ttl of the st.cache_data decorator of get_iam_token, in seconds.
TokenTTL == 300

NoCache == [present |-> FALSE, value |-> JNull, stored_at |-> 0]

\* Mutant: the entry is still served when exactly ttl seconds old.
CacheHitInclusive(cache, t) == cache.present /\ t - cache.stored_at <= TokenTTL

\* The cache entry of get_iam_token(API_KEY) is present and not expired.
CacheHit(cache, t) == cache.present /\ t - cache.stored_at < TokenTTL

\* Mutant: no raise_for_status(), and .get("access_token") for the subscript.
IamResultLenient(r) ==
    IF ~r.is_json
    THEN [exc |-> Exception("JSONDecodeError", "Expecting value"), value |-> JNull]
    ELSE [exc |-> NoException, value |-> Get(r.json, "access_token")]

\* Body of get_iam_token on the identity endpoint's response r:
\* raise_for_status(), then r.json()["access_token"].
IamResult(r) ==
    IF ~Ok(r)
    THEN [exc |-> Exception("HTTPError", ToString(r.status_code) \o " Error for url: " \o IAM_TOKEN_URL),
          value |-> JNull]
    ELSE IF ~r.is_json
    THEN [exc |-> Exception("JSONDecodeError", "Expecting value"), value |-> JNull]
    ELSE IF ~IsDict(r.json)
    THEN [exc |-> Exception("TypeError", "not subscriptable by str"), value |-> JNull]
    ELSE IF ~HasKey(r.json, "access_token")
    THEN [exc |-> Exception("KeyError", "'access_token'"), value |-> JNull]
    ELSE [exc |-> NoException, value |-> Get(r.json, "access_token")]

(***************************************************************************)
(* call_agent                                                              *)
(***************************************************************************)
\* Mutant: an empty profile is sent too.
VariablesUnchecked(send, profile) ==
    IF send THEN JDict(KV("profile", profile)) ELSE JDict(<<>>)

\* Lines 367-369: the variables mapping of one call.
Variables(send, profile) ==
    IF send /\ Truthy(profile) THEN JDict(KV("profile", profile)) ELSE JDict(<<>>)

\* Mutant: a body that is not JSON goes through the normalizer as a string.
SuccessReplyNormalized(r) ==
    IF r.is_json /\ ~extract_text(r.json).raised THEN extract_text(r.json).text
    ELSE extract_text(JStr(r.text)).text

\* Lines 377-381: what call_agent returns on a successful response r.
SuccessReply(r) ==
    IF r.is_json /\ ~extract_text(r.json).raised THEN extract_text(r.json).text ELSE r.text

\* Lines 383-386: last_error for a failed response r.
LastError(r) ==
    JDict(KV("status_code", JNum(r.status_code))
          \o KV("body", IF r.is_json THEN r.json ELSE JStr(TextPrefix(r.text))))

\* Lines 388-392: the error raised when the loop ends without a return.
AgentCallError(payload, error) ==
    Exception("RuntimeError",
        "Agent call failed (payload shapes tried). URL: " \o DEPLOYMENT_URL
        \o "\nLast payload: " \o DumpCompact(payload)
        \o "\nResponse: " \o DumpCompact(error))

(***************************************************************************)
(* Bounds and the environment's alphabets                                  *)
(***************************************************************************)
\* Turns (handle_message calls) of one session.
MaxTurns == 2

\* The clock stops advancing at MaxNow seconds.
MaxNow == 450

\* Longest list of the lists extract_text's inputs are built from.
MaxItems == 2

\* Steps by which the clock advances between two user interactions.
Deltas == {150, 299, 300}

RECURSIVE Repeat(_, _)
Repeat(str, k) == IF k = 0 THEN "" ELSE str \o Repeat(str, k - 1)

\* A raw body longer than BodyLimit characters.
LongText == "<html>" \o Repeat("0123456789", 150)

HelloBody == JDict(KV("output", JDict(KV("text", JStr("Hello")))))

\* A JSON body on which extract_text raises.
OddBody == JDict(KV("choices", JList(<<JStr("x")>>)))

NotFoundBody == JDict(KV("error", JStr("not found")))

\* What the agent endpoint may answer to one request.
AgentResponses ==
    { JsonResponse(200, HelloBody), JsonResponse(200, OddBody), TextResponse(204, ""),
      TextResponse(200, "plain text"),
      JsonResponse(404, NotFoundBody), TextResponse(500, LongText) }

\* The agent endpoint's answers in the session specification.
SessionAgentResponses == { JsonResponse(200, HelloBody), JsonResponse(404, NotFoundBody) }

\* What the identity endpoint may answer at time t.
IamResponses(t) ==
    { JsonResponse(200, JDict(KV("access_token", JStr("tok-" \o ToString(t))))),
      JsonResponse(401, JDict(KV("errorCode", JStr("BXNIM0415E")))),
      JsonResponse(200, JDict(KV("errorCode", JStr("BXNIM0415E")))),
      JsonResponse(200, JList(<<>>)),
      TextResponse(200, "<html>") }

SessionIamResponses(t) ==
    { JsonResponse(200, JDict(KV("access_token", JStr("tok-" \o ToString(t))))),
      JsonResponse(401, JDict(KV("errorCode", JStr("BXNIM0415E")))) }

\* Transport failures of requests.post.
Transports == {"Timeout", "ConnectionError"}

SessionTransports == {"Timeout"}

UserTexts == {"hi", "plan \"B\""}

SessionUserTexts == {"hi"}

\* The quick-start buttons clicked in the session specification.
SessionQuickPrompts ==
    { quick_start_plan_prompt(JDict(<<>>)),
      quick_start_plan_prompt(build_profile(JDict(
          KV("age", JNum(22)) \o KV("sex", JStr("male")) \o KV("height", JStr("175 cm"))
          \o KV("weight", JStr("78 kg")) \o KV("activity", JStr("moderate"))
          \o KV("goal", JStr("lose"))))),
      "Show my mini grocery list from the plan." }

\* The sidebar's widget values at a "Save profile" click.
Side(height) ==
    JDict(KV("age", JNum(22)) \o KV("sex", JStr("male")) \o KV("height", JStr(height))
          \o KV("weight", JStr("78 kg")) \o KV("activity", JStr("moderate"))
          \o KV("goal", JStr("lose")))

Sides == {Side("175 cm"), Side("tall")}

SessionSides == {Side("175 cm")}

(***************************************************************************)
(* State                                                                   *)
(***************************************************************************)
VARIABLES
    now,            \* the clock, in seconds
    token_cache,    \* st.cache_data's entry for get_iam_token(API_KEY)
    messages,       \* st.session_state["messages"]
    profile_vars,   \* st.session_state["profile_vars"]
    quick_used,     \* st.session_state["quick_used"]
    pc,             \* position: "idle", "token", "post", "done"
    user_msg,       \* handle_message's / call_agent's user text
    send_profile,   \* the send_profile checkbox, call_agent's argument
    token,          \* call_agent's token
    idx,            \* index of the loop's next candidate payload
    last_payload,   \* call_agent's last_payload
    last_error,     \* call_agent's last_error
    r,              \* the latest response of the agent endpoint
    outcome,        \* how call_agent ended: returned text or raised exception
    iam_log,        \* requests this call made to the identity endpoint
    sent,           \* payloads this call posted to the agent endpoint
    statuses,       \* status codes the agent endpoint answered in this call
    in_json,        \* extract_text's argument
    out_text,       \* extract_text's result
    side_in,        \* build_profile's argument
    prof_out,       \* build_profile's result
    page,           \* st.session_state["page"]
    queued_input,   \* st.session_state["queued_input"]
    queued_log      \* the prompts queue_prompt has queued in this session

vars == << now, token_cache, messages, profile_vars, quick_used, pc, user_msg,
           send_profile, token, idx, last_payload, last_error, r, outcome,
           iam_log, sent, statuses, in_json, out_text, side_in, prof_out,
           page, queued_input, queued_log >>

sessionVars == << messages, profile_vars, quick_used >>

callVars == << user_msg, send_profile, token, idx, last_payload, last_error, r,
               outcome, iam_log, sent, statuses >>

extractVars == << in_json, out_text >>

profileFnVars == << side_in, prof_out >>

uiVars == << page, queued_input, queued_log >>

\* build_profile has not been called.
NotBuilt == [t |-> "unset", s |-> "", n |-> 0, l |-> <<>>, d |-> <<>>]

NoResponse == [status_code |-> 0, text |-> "", is_json |-> FALSE, json |-> JNull]

NoOutcome == [kind |-> "none", text |-> "", exc |-> NoException]

ReturnOutcome(str) == [kind |-> "return", text |-> str, exc |-> NoException]

RaiseOutcome(e) == [kind |-> "raise", text |-> "", exc |-> e]

NotRun == [raised |-> FALSE, exc |-> "not run", text |-> ""]

\* The locals of a call_agent call that has not started.
CallNotStarted ==
    /\ token = JNull
    /\ idx = 1
    /\ last_payload = JNull
    /\ last_error = JNull
    /\ r = NoResponse
    /\ outcome = NoOutcome
    /\ iam_log = <<>>
    /\ sent = <<>>
    /\ statuses = <<>>

\* call_agent's frame is dropped when handle_message has its reply.
DropCall ==
    /\ user_msg' = ""
    /\ send_profile' = TRUE
    /\ token' = JNull
    /\ idx' = 1
    /\ last_payload' = JNull
    /\ last_error' = JNull
    /\ r' = NoResponse
    /\ outcome' = NoOutcome
    /\ iam_log' = <<>>
    /\ sent' = <<>>
    /\ statuses' = <<>>

Init ==
    /\ now = 0
    /\ token_cache = NoCache
    /\ messages = <<>>
    /\ profile_vars = JDict(<<>>)
    /\ quick_used = FALSE
    /\ pc = "idle"
    /\ user_msg = ""
    /\ send_profile = TRUE
    /\ CallNotStarted
    /\ in_json = JNull
    /\ out_text = NotRun
    /\ side_in = JDict(<<>>)
    /\ prof_out = NotBuilt
    /\ page = "home"
    /\ queued_input = JNull
    /\ queued_log = <<>>

(***************************************************************************)
(* Actions                                                                 *)
(***************************************************************************)
\* Time passes between two user interactions.
Tick(d) ==
    /\ pc = "idle"
    /\ now + d <= MaxNow
    /\ now' = now + d
    /\ UNCHANGED << token_cache, pc >>
    /\ UNCHANGED << sessionVars, callVars, extractVars >>
    /\ UNCHANGED << profileFnVars, uiVars >>

\* The "Save profile" button, lines 559-570.
SaveProfile(side) ==
    /\ pc = "idle"
    /\ page = "chat"
    /\ profile_vars' = build_profile(side)
    /\ UNCHANGED << now, token_cache, messages, quick_used, pc >>
    /\ UNCHANGED << callVars, extractVars >>
    /\ UNCHANGED << profileFnVars, uiVars >>

\* handle_message up to the call of call_agent, lines 573-589.
HandleMessageBegin(msg, send) ==
    /\ pc = "idle"
    /\ page = "chat"
    /\ Len(messages) < 2 * MaxTurns
    /\ quick_used' = TRUE
    /\ messages' = Append(messages, [role |-> "user", content |-> msg])
    /\ user_msg' = msg
    /\ send_profile' = send
    /\ pc' = "token"
    /\ UNCHANGED << now, token_cache, profile_vars >>
    /\ UNCHANGED << token, idx, last_payload, last_error, r, outcome, iam_log, sent, statuses >>
    /\ UNCHANGED extractVars
    /\ UNCHANGED << profileFnVars, uiVars >>

\* token = get_iam_token(API_KEY), line 360 with lines 204-216.
GetIamToken(responses, transports) ==
    /\ pc = "token"
    /\ IF CacheHit(token_cache, now)
       THEN /\ token' = token_cache.value
            /\ pc' = "post"
            /\ UNCHANGED << token_cache, iam_log, outcome >>
       ELSE \/ \E kind \in transports :
                 /\ iam_log' = Append(iam_log, [transport |-> kind, response |-> NoResponse])
                 /\ outcome' = RaiseOutcome(TransportError(kind, IAM_TOKEN_URL))
                 /\ pc' = "done"
                 /\ UNCHANGED << token_cache, token >>
            \/ \E resp \in responses :
                 LET res == IamResult(resp)
                 IN  /\ iam_log' = Append(iam_log, [transport |-> "", response |-> resp])
                     /\ IF res.exc = NoException
                        THEN /\ token_cache' = [present |-> TRUE, value |-> res.value,
                                                stored_at |-> now]
                             /\ token' = res.value
                             /\ pc' = "post"
                             /\ UNCHANGED outcome
                        ELSE /\ outcome' = RaiseOutcome(res.exc)
                             /\ pc' = "done"
                             /\ UNCHANGED << token_cache, token >>
    /\ UNCHANGED << now, user_msg, send_profile, idx, last_payload, last_error, r, sent, statuses >>
    /\ UNCHANGED << sessionVars, extractVars >>
    /\ UNCHANGED << profileFnVars, uiVars >>

\* One iteration of the loop over candidate_payloads, lines 373-386.
PostCandidate(responses, transports) ==
    /\ pc = "post"
    /\ idx <= NumCandidates
    /\ LET payload == candidate_payloads(user_msg, Variables(send_profile, profile_vars))[idx]
       IN  /\ last_payload' = payload
           /\ sent' = Append(sent, payload)
           /\ \/ \E kind \in transports :
                    /\ outcome' = RaiseOutcome(TransportError(kind, DEPLOYMENT_URL))
                    /\ pc' = "done"
                    /\ UNCHANGED << r, statuses, last_error, idx >>
              \/ \E resp \in responses :
                    /\ r' = resp
                    /\ statuses' = Append(statuses, resp.status_code)
                    /\ IF Ok(resp)
                       THEN /\ outcome' = ReturnOutcome(SuccessReply(resp))
                            /\ pc' = "done"
                            /\ UNCHANGED << last_error, idx >>
                       ELSE /\ last_error' = LastError(resp)
                            /\ idx' = idx + 1
                            /\ UNCHANGED << outcome, pc >>
    /\ UNCHANGED << now, token_cache, user_msg, send_profile, token, iam_log >>
    /\ UNCHANGED << sessionVars, extractVars >>
    /\ UNCHANGED << profileFnVars, uiVars >>

\* The loop ended without a return: the raise of lines 388-392.
Exhausted ==
    /\ pc = "post"
    /\ idx = NumCandidates + 1
    /\ outcome' = RaiseOutcome(AgentCallError(last_payload, last_error))
    /\ pc' = "done"
    /\ UNCHANGED << now, token_cache, user_msg, send_profile, token, idx, last_payload,
                    last_error, r, iam_log, sent, statuses >>
    /\ UNCHANGED << sessionVars, extractVars >>
    /\ UNCHANGED << profileFnVars, uiVars >>

\* Lines 590-592: the reply handle_message shows for call_agent's outcome.
Reply(o) ==
    IF o.kind = "return" THEN o.text
    ELSE "Sorry, the agent could not respond.\n\n" \o o.exc.message

\* Mutant: an exception of call_agent escapes handle_message.
WithReplyOnReturn(history, o) ==
    IF o.kind = "return" THEN Append(history, [role |-> "assistant", content |-> o.text])
    ELSE history

\* Line 594: the history after the reply to call_agent's outcome o.
WithReply(history, o) == Append(history, [role |-> "assistant", content |-> Reply(o)])

\* handle_message after call_agent has returned or raised, lines 590-594.
HandleMessageEnd ==
    /\ pc = "done"
    /\ messages' = WithReply(messages, outcome)
    /\ pc' = "idle"
    /\ DropCall
    /\ UNCHANGED << now, token_cache, profile_vars, quick_used >>
    /\ UNCHANGED extractVars
    /\ UNCHANGED << profileFnVars, uiVars >>

\* The pages a button of the page p leads to: lines 422-429, 454-458, 521-522.
NavTargets(p) ==
    CASE p = "home" -> {"chat", "description"}
      [] p = "description" -> {"home", "description", "chat"}
      [] OTHER -> {"home", "description"}

\* A navigation button: go(target), and the rerun that renders the page.
Go(target) ==
    /\ pc = "idle"
    /\ target \in NavTargets(page)
    /\ page' = target
    /\ UNCHANGED << now, token_cache, pc, queued_input, queued_log >>
    /\ UNCHANGED << sessionVars, callVars, extractVars, profileFnVars >>

\* A quick-start button, shown while quick_used is false: queue_prompt,
\* lines 597-609; st.rerun() ends this run and starts the next.
QueuePrompt(text) ==
    /\ pc = "idle"
    /\ page = "chat"
    /\ ~quick_used
    /\ text \in QuickPrompts(profile_vars)
    /\ queued_input' = JStr(text)
    /\ quick_used' = TRUE
    /\ queued_log' = Append(queued_log, text)
    /\ pc' = "rerun"
    /\ UNCHANGED << now, token_cache, messages, profile_vars, page >>
    /\ UNCHANGED << callVars, extractVars, profileFnVars >>

\* Mutant: line 648 is missing.
QueueKept == queued_input

\* Line 648: queued_input once the queued prompt has been read.
QueueCleared == JNull

\* The rerun after queue_prompt, lines 646-649: the queued prompt is taken
\* off the queue and handed to handle_message (lines 573-589).
RerunQueued(send) ==
    /\ pc = "rerun"
    /\ IF Truthy(queued_input)
       THEN /\ queued_input' = QueueCleared
            /\ quick_used' = TRUE
            /\ messages' = Append(messages, [role |-> "user", content |-> queued_input.s])
            /\ user_msg' = queued_input.s
            /\ send_profile' = send
            /\ pc' = "token"
       ELSE /\ pc' = "idle"
            /\ UNCHANGED << queued_input, quick_used, messages, user_msg, send_profile >>
    /\ UNCHANGED << now, token_cache, profile_vars, page, queued_log >>
    /\ UNCHANGED << token, idx, last_payload, last_error, r, outcome, iam_log, sent, statuses >>
    /\ UNCHANGED << extractVars, profileFnVars >>

\* The session: user turns one after the other, the clock running in between.
Next ==
    \/ \E d \in Deltas : Tick(d)
    \/ \E target \in {"home", "description", "chat"} : Go(target)
    \/ \E text \in SessionQuickPrompts : QueuePrompt(text)
    \/ \E send \in BOOLEAN : RerunQueued(send)
    \/ \E side \in SessionSides : SaveProfile(side)
    \/ \E msg \in SessionUserTexts, send \in BOOLEAN : HandleMessageBegin(msg, send)
    \/ GetIamToken(SessionIamResponses(now), SessionTransports)
    \/ PostCandidate(SessionAgentResponses, SessionTransports)
    \/ Exhausted
    \/ HandleMessageEnd

Spec == Init /\ [][Next]_vars

(***************************************************************************)
(* One call of call_agent, on any arguments and any answers                *)
(***************************************************************************)
InitGateway ==
    /\ now = 0
    /\ token_cache \in {NoCache, [present |-> TRUE, value |-> JStr("tok-0"), stored_at |-> 0]}
    /\ messages = <<>>
    /\ profile_vars \in {JDict(<<>>)} \cup {build_profile(side) : side \in Sides}
    /\ quick_used = FALSE
    /\ pc = "token"
    /\ user_msg \in UserTexts
    /\ send_profile \in BOOLEAN
    /\ CallNotStarted
    /\ in_json = JNull
    /\ out_text = NotRun
    /\ side_in = JDict(<<>>)
    /\ prof_out = NotBuilt
    /\ page = "chat"
    /\ queued_input = JNull
    /\ queued_log = <<>>

NextGateway ==
    \/ GetIamToken(IamResponses(now), Transports)
    \/ PostCandidate(AgentResponses, Transports)
    \/ Exhausted

SpecGateway == InitGateway /\ [][NextGateway]_vars

(***************************************************************************)
(* extract_text on its own, on any JSON value                              *)
(***************************************************************************)
\* All lists of at most k items of the set S.
ListsUpTo(S, k) == UNION {[1..m -> S] : m \in 0..k}

\* A content block {"text": str}.
TextBlock(str) == JDict(KV("text", JStr(str)))

\* A message {"content": c}.
Message(c) == JDict(KV("content", c))

\* A dict with the key k only when v is given (v is not Absent).
Absent == [t |-> "absent", s |-> "", n |-> 0, l |-> <<>>, d |-> <<>>]

Opt(k, v) == IF v = Absent THEN <<>> ELSE KV(k, v)

GenericItems == {JStr("g"), TextBlock("A"), TextBlock("B"), JDict(KV("text", JNum(5)))}

MessageItems ==
    { JStr("m"), JDict(<<>>), Message(JNull), Message(JNum(5)), Message(JStr("ab")),
      Message(JList(<<TextBlock("A")>>)), Message(JList(<<TextBlock("B"), JStr("x")>>)) }

ChoiceItems ==
    { JStr("c"), JNull, JDict(<<>>), JDict(KV("message", JNull)),
      JDict(KV("message", JStr("m"))),
      JDict(KV("message", JDict(<<>>))),
      JDict(KV("message", Message(JStr("Hi there")))),
      JDict(KV("message", Message(JStr(" \n")))),
      JDict(KV("message", Message(JNum(5)))),
      JDict(KV("message", Message(JList(<<>>)))),
      JDict(KV("message", Message(JList(<<TextBlock("A"), JStr("x"), TextBlock("B")>>)))) }

ResultItems ==
    { JStr("r"), JDict(<<>>),
      JDict(KV("generated_text", JStr("Plan ready"))),
      JDict(KV("output", JStr("O"))),
      JDict(KV("text", JStr("T"))),
      JDict(KV("generated_text", JStr("")) \o KV("output", JStr("O"))),
      JDict(KV("generated_text", JStr(" ")) \o KV("text", JStr("T"))),
      JDict(KV("generated_text", JNum(5)) \o KV("text", JStr("T"))) }

\* Inputs in which one response family is present, in every bounded variation.
FamilyInputs ==
    {JDict(KV("output", JDict(KV("generic", JList(g))))) : g \in ListsUpTo(GenericItems, MaxItems)}
    \cup {JDict(KV("output", JDict(KV("messages", JList(m))))) : m \in ListsUpTo(MessageItems, MaxItems)}
    \cup {JDict(KV("choices", JList(c))) : c \in ListsUpTo(ChoiceItems, MaxItems)}
    \cup {JDict(KV("results", JList(x))) : x \in ListsUpTo(ResultItems, MaxItems)}

OutputTexts == {Absent, JStr("Hello"), JStr("  "), JNum(1)}

OutputGenerics == {Absent, JStr("g"), JList(<<JStr("g")>>), JList(<<TextBlock("A"), TextBlock("B")>>)}

OutputMessages ==
    { Absent, JList(<<Message(JNull)>>), JList(<<Message(JList(<<TextBlock("M")>>))>>),
      JList(<<Message(JList(<<TextBlock("M")>>)), JStr("m")>>) }

Outputs ==
    {Absent, JStr("out"), JNull}
    \cup {JDict(Opt("text", t) \o Opt("generic", g) \o Opt("messages", m)) :
             t \in OutputTexts, g \in OutputGenerics, m \in OutputMessages}

Choices ==
    { Absent, JList(<<>>), JList(<<JStr("c")>>),
      JList(<<JDict(KV("message", Message(JStr("Hi there"))))>>),
      JList(<<JDict(KV("message", Message(JList(<<TextBlock("C")>>))))>>) }

Results ==
    { Absent, JStr("r"), JList(<<JDict(KV("generated_text", JStr("Plan ready")))>>),
      JList(<<JDict(KV("output", JNum(1))), JDict(KV("text", JStr("T")))>>) }

\* Inputs in which several response families are present at once.
MixedInputs ==
    {JDict(Opt("results", x) \o Opt("choices", c) \o Opt("output", o)) :
        x \in Results, c \in Choices, o \in Outputs}

ScalarInputs ==
    { JNull, JNum(1), JBool(TRUE), JStr("raw \"text\""), JList(<<>>),
      JList(<<JNum(1), JDict(KV("output", JDict(KV("text", JStr("Hello")))))>>),
      JDict(<<>>), JDict(KV("foo", JNum(1))) }

ExtractInputs == FamilyInputs \cup MixedInputs \cup ScalarInputs

InitExtract ==
    /\ now = 0
    /\ token_cache = NoCache
    /\ messages = <<>>
    /\ profile_vars = JDict(<<>>)
    /\ quick_used = FALSE
    /\ pc = "idle"
    /\ user_msg = ""
    /\ send_profile = TRUE
    /\ CallNotStarted
    /\ in_json \in ExtractInputs
    /\ out_text = NotRun
    /\ side_in = JDict(<<>>)
    /\ prof_out = NotBuilt
    /\ page = "home"
    /\ queued_input = JNull
    /\ queued_log = <<>>

\* One call extract_text(in_json).
Extract ==
    /\ out_text = NotRun
    /\ out_text' = extract_text(in_json)
    /\ UNCHANGED << now, token_cache, pc, in_json >>
    /\ UNCHANGED << sessionVars, callVars, profileFnVars, uiVars >>

NextExtract == Extract

SpecExtract == InitExtract /\ [][NextExtract]_vars

(***************************************************************************)
(* C6, C7: the normalizer                                                  *)
(***************************************************************************)
\* C6: extract_text never fails: on every JSON value it returns a string
\* and raises nothing.
C6_NeverFails == out_text # NotRun => ~out_text.raised

\* The texts of the blocks of a list, as the claim reads a response: the
\* "text" strings of the entries that are objects.
ClaimTexts(x) ==
    LET items == IF IsList(x) THEN x.l ELSE <<>>
        keep == SelectSeq(items, LAMBDA it : IsDict(it) /\ IsStr(Get(it, "text")))
    IN  [i \in 1..Len(keep) |-> Get(keep[i], "text").s]

\* output.messages[].content[].text, entries that are no objects and
\* contents that are no lists holding no text.
ClaimMessageTexts(msgs) ==
    LET items == IF IsList(msgs) THEN msgs.l ELSE <<>>
    IN  ConcatAll([i \in 1..Len(items) |->
            IF IsDict(items[i]) THEN ClaimTexts(Get(items[i], "content")) ELSE <<>>])

\* choices[0].message.content, None when a step of the path is missing.
ClaimChoiceContent(j) ==
    LET choices == Get(j, "choices")
        ch0 == IF IsList(choices) /\ choices.l # <<>> THEN choices.l[1] ELSE JNull
        msg == IF IsDict(ch0) THEN Get(ch0, "message") ELSE JNull
    IN  IF IsDict(msg) THEN Get(msg, "content") ELSE JNull

\* The generation-style text of one entry of results[].
ClaimResultText(it) ==
    IF IsDict(it)
    THEN PyOr(PyOr(Get(it, "generated_text"), Get(it, "output")), Get(it, "text"))
    ELSE JNull

IsText(x) == IsStr(x) /\ ~IsBlank(x.s)

\* The cascade of the claim: the earliest family that matches decides.
ClaimCascade(j) ==
    LET out == IF IsDict(Get(j, "output")) THEN Get(j, "output") ELSE JDict(<<>>)
        res == IF IsList(Get(j, "results")) THEN Get(j, "results").l ELSE <<>>
        hits == {i \in 1..Len(res) : IsText(ClaimResultText(res[i]))}
    IN  IF ~IsDict(j) THEN DumpIndented(j, 0)
        ELSE IF IsText(Get(out, "text")) THEN Get(out, "text").s
        ELSE IF ClaimTexts(Get(out, "generic")) # <<>>
             THEN Join("\n\n", ClaimTexts(Get(out, "generic")))
        ELSE IF ClaimMessageTexts(Get(out, "messages")) # <<>>
             THEN Join("\n\n", ClaimMessageTexts(Get(out, "messages")))
        ELSE IF IsText(ClaimChoiceContent(j)) THEN ClaimChoiceContent(j).s
        ELSE IF ClaimTexts(ClaimChoiceContent(j)) # <<>>
             THEN Join("\n\n", ClaimTexts(ClaimChoiceContent(j)))
        ELSE IF hits # {}
             THEN ClaimResultText(res[CHOOSE i \in hits : \A k \in hits : i <= k]).s
        ELSE DumpIndented(j, 0)

\* C7: extract_text is a first-match-wins cascade over output.text,
\* output.generic, output.messages, choices[0].message.content and results[],
\* and gives the indented JSON dump of the input when no family matches.
C7_Cascade == out_text # NotRun => out_text = Returned(ClaimCascade(in_json))

\* The cascade holds of every input on which extract_text raises nothing.
C7_CascadeUnlessRaised ==
    (out_text # NotRun /\ ~out_text.raised) => out_text = Returned(ClaimCascade(in_json))

\* The examples of the specification's section 8.
C7_Examples ==
    /\ extract_text(JDict(KV("output", JDict(KV("text", JStr("Hello")))))) = Returned("Hello")
    /\ extract_text(JDict(KV("results", JList(<<JDict(KV("generated_text", JStr("Plan ready")))>>))))
          = Returned("Plan ready")
    /\ extract_text(JDict(KV("foo", JNum(1)))) = Returned("{\n  \"foo\": 1\n}")

(***************************************************************************)
(* C1-C4, C9, C10: one call of call_agent                                  *)
(***************************************************************************)
\* A status code that requests counts as a failure (r.ok is false).
IsFailure(status) == status \in 400..599

\* The candidate list of the call in progress.
Candidates == candidate_payloads(user_msg, Variables(send_profile, profile_vars))

\* The seventh payload shape for the call's user text and variables.
SeventhShape ==
    JDict(KV("input", JDict(KV("text", JStr(user_msg))
                            \o KV("variables", Variables(send_profile, profile_vars)))))

\* The body of the latest response as the error reports it: the JSON
\* document, else the first 1500 characters of the raw text.
ReportedBody ==
    IF r.is_json THEN r.json
    ELSE JStr(IF Len(r.text) > 1500 THEN SubSeq(r.text, 1, 1500) ELSE r.text)

AllSevenFailed == Len(statuses) = 7 /\ \A i \in 1..7 : IsFailure(statuses[i])

\* C1: when every candidate gets a non-success status, exactly seven
\* requests are made, one per candidate in list order, and only then the
\* call fails with an error carrying the URL, the 7th payload and the status
\* code and body of the last response.
C1_AllCandidatesFail ==
    /\ (pc = "done" /\ AllSevenFailed) => outcome.exc.type = "RuntimeError"
    /\ (\A i \in 1..Len(statuses) : IsFailure(statuses[i])) /\ Len(statuses) < 7
           => outcome.exc.type # "RuntimeError"
    /\ outcome.exc.type = "RuntimeError" =>
          /\ AllSevenFailed
          /\ Len(sent) = 7
          /\ \A i \in 1..7 : sent[i] = Candidates[i]
          /\ outcome.exc.message =
                "Agent call failed (payload shapes tried). URL: " \o DEPLOYMENT_URL
                \o "\nLast payload: " \o DumpCompact(SeventhShape)
                \o "\nResponse: "
                \o DumpCompact(JDict(KV("status_code", JNum(statuses[7]))
                                     \o KV("body", ReportedBody)))

\* All seven candidates answered 404 and the call has failed.
C1_Witness ==
    /\ pc = "done"
    /\ outcome.exc.type = "RuntimeError"
    /\ Len(statuses) = 7
    /\ \A i \in 1..7 : statuses[i] = 404

C3_TransportFailureContinues ==
    (outcome.kind = "raise" /\ sent # <<>>) =>
        (Len(sent) = 7 /\ outcome.exc.type = "RuntimeError")

\* The identity exchange of this call failed: a transport error, a status
\* outside 2xx, or a body without access_token.
ExchangeFailed ==
    /\ iam_log # <<>>
    /\ LET e == iam_log[1]
       IN  \/ e.transport # ""
           \/ e.response.status_code \notin 200..299
           \/ ~(e.response.is_json /\ IsDict(e.response.json)
                /\ HasKey(e.response.json, "access_token"))

\* The exception types get_iam_token's failures surface as.
AuthErrorTypes ==
    {"Timeout", "ConnectionError", "HTTPError", "JSONDecodeError", "TypeError", "KeyError"}

C9_NonJsonIsPlainText ==
    (statuses # <<>> /\ ~IsFailure(statuses[Len(statuses)]) /\ ~r.is_json)
        => (pc = "done" /\ outcome = ReturnOutcome(r.text))

\* The second candidate got a 200 whose body is plain text.
C9_Witness ==
    /\ pc = "done"
    /\ statuses = <<404, 200>>
    /\ ~r.is_json
    /\ outcome.text = "plain text"

\* The variables mapping of a payload of shape i.
VariablesOf(i, p) ==
    IF i \in {4, 5, 6} THEN Get(p, "variables") ELSE Get(Get(p, "input"), "variables")

\* x[0], None when x is no list or is empty.
FirstOf(x) == IF IsList(x) /\ x.l # <<>> THEN x.l[1] ELSE JNull

\* The user text of a payload of shape i.
UserTextOf(i, p) ==
    CASE i = 1 -> Get(FirstOf(Get(Get(p, "input"), "messages")), "content")
      [] i \in {2, 3} ->
            Get(FirstOf(Get(FirstOf(Get(Get(p, "input"), "messages")), "content")), "text")
      [] i = 4 -> Get(FirstOf(Get(p, "input")), "content")
      [] i = 5 -> Get(FirstOf(Get(FirstOf(Get(p, "input")), "content")), "text")
      [] i = 6 -> Get(FirstOf(Get(p, "messages")), "content")
      [] i = 7 -> Get(Get(p, "input"), "text")

\* The variables mapping the claim expects of the call in progress.
ExpectedVariables ==
    IF send_profile /\ profile_vars.d # <<>>
    THEN JDict(KV("profile", profile_vars))
    ELSE JDict(<<>>)

\* C10: the variables mapping of every candidate is empty unless
\* send_profile is true and profile_vars is non-empty, and then it is
\* {profile: profile_vars}; all seven candidates carry the same user text
\* and the same variables mapping.
C10_VariablesMapping ==
    pc \in {"token", "post", "done"} =>
        /\ Len(Candidates) = 7
        /\ \A i \in 1..7 :
              /\ VariablesOf(i, Candidates[i]) = ExpectedVariables
              /\ UserTextOf(i, Candidates[i]) = JStr(user_msg)
        /\ \A i \in 1..Len(sent) :
              /\ VariablesOf(i, sent[i]) = ExpectedVariables
              /\ UserTextOf(i, sent[i]) = JStr(user_msg)

\* All seven candidates were sent with a saved profile.
C10_Witness ==
    /\ Len(sent) = 7
    /\ send_profile
    /\ profile_vars.d # <<>>
    /\ VariablesOf(7, sent[7]) = JDict(KV("profile", profile_vars))

(***************************************************************************)
(* C5, C8: the session                                                     *)
(***************************************************************************)
\* The cached token is younger than 300 seconds.
WithinWindow == token_cache.present /\ now - token_cache.stored_at < 300

\* C5: a get_iam_token call less than 300 seconds after the last successful
\* exchange makes no identity request and returns the cached token; any
\* other call makes exactly one request, never a second one in the same
\* turn.
C5_TokenCache ==
    /\ [](Len(iam_log) <= 1)
    /\ [][pc = "token" =>
            IF WithinWindow
            THEN /\ iam_log' = iam_log
                 /\ token' = token_cache.value
                 /\ token_cache' = token_cache
                 /\ pc' = "post"
            ELSE /\ Len(iam_log') = Len(iam_log) + 1
                 /\ (pc' = "post" => /\ token_cache'.present
                                     /\ token_cache'.stored_at = now
                                     /\ token' = token_cache'.value)
                 /\ (pc' # "post" => token_cache' = token_cache)]_vars

\* A second turn, 299 seconds after the exchange of the first, got the
\* cached token without a request.
C5_Witness ==
    /\ pc = "post"
    /\ Len(messages) = 3
    /\ iam_log = <<>>
    /\ now - token_cache.stored_at = 299
    /\ token = token_cache.value

\* The session history alternates user, assistant.
Alternates ==
    \A i \in 1..Len(messages) :
        messages[i].role = IF i % 2 = 1 THEN "user" ELSE "assistant"

\* handle_message is running.
InTurn == pc \in {"token", "post", "done"}

\* C8: every handle_message call appends one user entry and then exactly
\* one assistant entry, the reply or the error message, whether call_agent
\* returns or raises; the history alternates user, assistant.
C8_OneReplyPerTurn ==
    /\ [](Alternates /\ (Len(messages) % 2 = 1 <=> InTurn))
    /\ [][pc = "done" =>
            messages' = Append(messages,
                [role |-> "assistant",
                 content |-> IF outcome.kind = "return" THEN outcome.text
                             ELSE "Sorry, the agent could not respond.\n\n"
                                  \o outcome.exc.message])]_vars
    /\ [][~InTurn /\ InTurn' =>
            /\ Len(messages') = Len(messages) + 1
            /\ messages'[Len(messages')].role = "user"]_vars

\* Two turns are over: the first got an error message, the second a reply.
C8_Witness ==
    /\ pc = "idle"
    /\ Len(messages) = 4
    /\ messages[2].content # "Hello"
    /\ messages[4].content = "Hello"

(***************************************************************************)
(* build_profile on its own, on any raw-field mapping                      *)
(***************************************************************************)
AgeInputs == {Absent, JNull, JNum(22), JNum(0)}

SexInputs == {Absent, JStr("male")}

HeightInputs ==
    { Absent, JNull, JNum(175), JStr(""), JStr("tall"), JStr("."), JStr("1.7.5"),
      JStr("175 cm"), JStr("1.75 m"), JStr("007.50") }

WeightInputs == {Absent, JNull, JStr("78 kg"), JStr("kg"), JStr("78.5kg"), JStr("7 8")}

ActivityInputs == {Absent, JStr("moderate")}

GoalInputs == {Absent, JNull, JStr("lose")}

\* The raw-field mappings build_profile is applied to.
ProfileInputs ==
    { JDict(Opt("age", a) \o Opt("sex", x) \o Opt("height", h) \o Opt("weight", w)
            \o Opt("activity", c) \o Opt("goal", g)) :
        a \in AgeInputs, x \in SexInputs, h \in HeightInputs, w \in WeightInputs,
        c \in ActivityInputs, g \in GoalInputs }

InitProfile ==
    /\ now = 0
    /\ token_cache = NoCache
    /\ messages = <<>>
    /\ profile_vars = JDict(<<>>)
    /\ quick_used = FALSE
    /\ pc = "idle"
    /\ user_msg = ""
    /\ send_profile = TRUE
    /\ CallNotStarted
    /\ in_json = JNull
    /\ out_text = NotRun
    /\ side_in \in ProfileInputs
    /\ prof_out = NotBuilt
    /\ page = "home"
    /\ queued_input = JNull
    /\ queued_log = <<>>

\* One call build_profile(side_in).
BuildProfile ==
    /\ prof_out = NotBuilt
    /\ prof_out' = build_profile(side_in)
    /\ UNCHANGED << now, token_cache, pc, side_in >>
    /\ UNCHANGED << sessionVars, callVars, extractVars, uiVars >>

NextProfile == BuildProfile

SpecProfile == InitProfile /\ [][NextProfile]_vars

(***************************************************************************)
(* C11: the profile                                                        *)
(***************************************************************************)
\* The raw field k is missing: not given, or given as None.
FieldMissing(side, k) == Get(side, k) = JNull

\* The raw height / weight x reads as a number: a string whose digits and
\* dots, taken in order, hold a digit and at most one dot.
ReadsAsNumber(x) ==
    /\ IsStr(x)
    /\ \E i \in 1..Len(x.s) : IsDigit(SubSeq(x.s, i, i))
    /\ Cardinality({i \in 1..Len(x.s) : SubSeq(x.s, i, i) = "."}) <= 1

ProfileKeys == {"age", "sex", "height_cm", "weight_kg", "activity", "goal"}

\* C11: a field that is missing, or a height / weight that does not parse,
\* has its key absent from build_profile's result; no key of the result is
\* mapped to null; with all six fields present and well-formed the result
\* holds all six keys.
C11_NoNullKeys ==
    prof_out # NotBuilt =>
        /\ IsDict(prof_out)
        /\ \A i \in 1..Len(prof_out.d) :
              prof_out.d[i].k \in ProfileKeys /\ prof_out.d[i].v # JNull
        /\ \A k \in {"age", "sex", "activity", "goal"} :
              FieldMissing(side_in, k) => ~HasKey(prof_out, k)
        /\ (FieldMissing(side_in, "height") \/ ~ReadsAsNumber(Get(side_in, "height")))
              => ~HasKey(prof_out, "height_cm")
        /\ (FieldMissing(side_in, "weight") \/ ~ReadsAsNumber(Get(side_in, "weight")))
              => ~HasKey(prof_out, "weight_kg")
        /\ ( /\ \A k \in {"age", "sex", "activity", "goal"} : ~FieldMissing(side_in, k)
             /\ ReadsAsNumber(Get(side_in, "height"))
             /\ ReadsAsNumber(Get(side_in, "weight")) )
              => /\ \A k \in ProfileKeys : HasKey(prof_out, k)
                 /\ Len(prof_out.d) = 6

\* The profile of a mapping without age whose height does not parse: the
\* two keys are absent, the weight "78 kg" is there as 78.0.
C11_Witness ==
    /\ prof_out # NotBuilt
    /\ ~HasKey(side_in, "age")
    /\ Get(side_in, "height") = JStr("tall")
    /\ ~HasKey(prof_out, "age") /\ ~HasKey(prof_out, "height_cm")
    /\ Get(prof_out, "weight_kg") = JFloat(78, "0")

(***************************************************************************)
(* C12: the quick-start queue                                              *)
(***************************************************************************)
\* How many user entries of the history hold the text.
TimesAsked(text) ==
    Cardinality({i \in 1..Len(messages) :
                    messages[i].role = "user" /\ messages[i].content = text})

\* C12: a queued quick-start prompt is handed to handle_message exactly
\* once: the rerun that follows takes it off the queue (queued_input is None
\* again before handle_message runs) and appends it as the user entry, later
\* reruns never send it again, and quick_used, once true, stays true, so no
\* second prompt is ever queued.
C12_QueuedPromptOnce ==
    /\ [](pc # "rerun" => queued_input = JNull)
    /\ [](pc = "rerun" => queued_input = JStr(queued_log[Len(queued_log)]))
    /\ [](Len(queued_log) <= 1)
    /\ [](\A i \in 1..Len(queued_log) :
             TimesAsked(queued_log[i]) = IF pc = "rerun" THEN 0 ELSE 1)
    /\ [][queued_input # JNull =>
            /\ queued_input' = JNull
            /\ messages' = Append(messages, [role |-> "user", content |-> queued_input.s])
            /\ user_msg' = queued_input.s
            /\ pc' = "token"]_vars
    /\ [][quick_used => quick_used']_vars
    /\ [][queued_log' # queued_log => (~quick_used /\ messages = <<>>)]_vars

\* A quick-start prompt was answered, a typed message was answered after
\* it, and the prompt is in the history once.
C12_Witness ==
    /\ pc = "idle"
    /\ Len(queued_log) = 1
    /\ Len(messages) = 4
    /\ messages[1].content = queued_log[1]
    /\ messages[3].content = "hi"
    /\ quick_used

====
